---------------------------- MODULE Spec2Model ----------------------------
(***************************************************************************)
(* Model of the http-status-check crawler (src/src/main.rs).               *)
(*                                                                         *)
(* A URL string is a sequence of one-character strings over a small        *)
(* alphabet:  "h" stands for the scheme "https", "e" for the host          *)
(* "example.com", "o" for the host "other.test", the remaining letters for *)
(* path segments.  <<"h",":","/","/","e","/","a">> is                      *)
(* "https://example.com/a".                                                *)
(***************************************************************************)
EXTENDS Integers, Sequences, FiniteSets, TLC

VARIABLES
    crawler,    \* the Crawler behind Arc<Mutex<..>>: opts, pending, responses
    lock,       \* holder of the futures::lock::Mutex (0 = free)
    pc,         \* position of every worker task in its loop
    url,        \* the url a worker popped
    resp,       \* the reqwest::Response a worker received (url, status)
    hrefs,      \* the href attributes a worker still has to queue
    pushed,     \* history: how often each string was pushed to `pending`
    presented,  \* history: how often queue() was called for a formatted url
    capped,     \* history: how many of those calls met the limit check
    served,     \* history: how many hrefs the fetched pages held so far
    admitted,   \* history: the strings pushed to `pending`, in push order
    popped,     \* history: the strings popped from `pending`, in pop order
    nu,         \* format_url on its own: the input string
    nr          \* format_url on its own: the results of successive calls

vars ==
    <<crawler, lock, pc, url, resp, hrefs, pushed, presented, capped, served,
      admitted, popped, nu, nr>>

crawl ==
    <<crawler, lock, pc, url, resp, hrefs, pushed, presented, capped, served,
      admitted, popped>>

study == <<nu, nr>>

-----------------------------------------------------------------------------
(* Bounds and program constants *)

\* for _ in 0..5
NumWorkers == 5

\* The crawled pages hold at most MaxHrefs hrefs between them.
MaxHrefs == 2

\* --limit is one of 0..MaxLimit (0: no limit).
MaxLimit == 2

\* format_url is applied to every string of at most MaxStrLen characters.
MaxStrLen == 6

Workers == 1..NumWorkers

NoWorker == 0

-----------------------------------------------------------------------------
(* Strings *)

Chars == {"h", ":", "/", "e", "a"}

AllChars == Chars \cup {"o", "b", "c"}

Strings == Seq(AllChars)

StartsWithSlash(s) == Len(s) >= 1 /\ s[1] = "/"

\* Number of leading '/' characters of s.
LeadingSlashes[s \in Strings] ==
    Cardinality({i \in 1..Len(s) : \A j \in 1..i : s[j] = "/"})

\* Index of the first occurrence of c in s, or Len(s) + 1.
IndexOf[s \in Strings, c \in AllChars] ==
    IF \E i \in 1..Len(s) : s[i] = c
    THEN CHOOSE i \in 1..Len(s) : s[i] = c /\ \A j \in 1..(i - 1) : s[j] # c
    ELSE Len(s) + 1

\* All strings over Chars of length at most n.
StringsUpTo(n) == UNION {[1..k -> Chars] : k \in 0..n}

-----------------------------------------------------------------------------
(* The url crate, as far as the crawler uses it *)

ParseOk(host, path) == [ok |-> TRUE, err |-> "", host |-> host, path |-> path]

ParseErr(e) == [ok |-> FALSE, err |-> e, host |-> <<>>, path |-> <<>>]

\* The host and the port of an authority, with the path that follows it:
\* a port must be digits (the alphabet has none), a host must not be empty,
\* and an empty path is "/".
ParseHostPort[hp \in Strings, path \in Strings] ==
    IF SubSeq(hp, IndexOf[hp, ":"] + 1, Len(hp)) # <<>>
    THEN ParseErr("InvalidPort")
    ELSE IF SubSeq(hp, 1, IndexOf[hp, ":"] - 1) = <<>>
    THEN ParseErr("EmptyHost")
    ELSE ParseOk(SubSeq(hp, 1, IndexOf[hp, ":"] - 1),
                 IF path = <<>> THEN <<"/">> ELSE path)

\* The authority ends at the next '/'.
ParseAuthority[auth \in Strings] ==
    ParseHostPort[SubSeq(auth, 1, IndexOf[auth, "/"] - 1),
                  SubSeq(auth, IndexOf[auth, "/"], Len(auth))]

\* Url::parse of the part after "https:".  A special scheme skips any number
\* of slashes before the authority.
ParseAfterScheme[rest \in Strings] ==
    ParseAuthority[SubSeq(rest, LeadingSlashes[rest] + 1, Len(rest))]

\* Url::parse(s): a string without a scheme is RelativeUrlWithoutBase.
UrlParse[s \in Strings] ==
    IF Len(s) >= 2 /\ s[1] = "h" /\ s[2] = ":"
    THEN ParseAfterScheme[SubSeq(s, 3, Len(s))]
    ELSE ParseErr("RelativeUrlWithoutBase")

\* Url::to_string
UrlToString(u) == <<"h", ":", "/", "/">> \o u.host \o u.path

\* base.join(ref) for a reference that starts with '/': "//..." is
\* scheme-relative (the authority is taken from the reference), "/..."
\* replaces the path of the base.
UrlJoin(b, ref) ==
    IF Len(ref) >= 2 /\ ref[2] = "/"
    THEN ParseAfterScheme[ref]
    ELSE ParseOk(b.host, ref)

\* Url::domain
Domain(u) == u.host

-----------------------------------------------------------------------------
(* The strings of the modelled web *)

Entrypoint == <<"h", ":", "/", "/", "e", "/">>

LinkRelA == <<"/", "a">>

LinkAbsB == <<"h", ":", "/", "/", "e", "/", "b">>

LinkOtherC == <<"h", ":", "/", "/", "o", "/", "c">>

LinkSchemeRelC == <<"/", "/", "o", "/", "c">>

LinkBare == <<"a">>

LinkNoHost == <<"h", ":", "/", "/">>

RawLinks == {LinkRelA, LinkOtherC, LinkSchemeRelC, LinkBare, LinkNoHost}

UrlA == <<"h", ":", "/", "/", "e", "/", "a">>

Redirects == {UrlA}

Statuses == {200, 404}

\* The href sequences a page can hold, n hrefs at most.
LinkLists(n) == UNION {[1..k -> RawLinks] : k \in 0..n}

-----------------------------------------------------------------------------
(* struct Response *)

ResponseNew(status, count) == [status |-> status, count |-> count]

increment_by(r, value) == [r EXCEPT !.count = @ + value]

increment(r) == increment_by(r, 1)

\* set_status that leaves the record as it was.
set_status_noop(r, status) == r

set_status(r, status) == [r EXCEPT !.status = status]

-----------------------------------------------------------------------------
(* struct Crawler *)

Base == UrlParse[Entrypoint]

Put(m, k, v) == [x \in DOMAIN m \cup {k} |-> IF x = k THEN v ELSE m[x]]

\* format_url without the join: a relative link is returned as it is.
format_url_no_join(raw) == raw

\* format_url that prefixes the base to every link, relative or not.
format_url_always_prefix(raw) == UrlToString(Base) \o raw

format_url(raw) ==
    IF StartsWithSlash(raw)
    THEN LET full_url == UrlJoin(Base, raw)
         IN  IF full_url.ok THEN UrlToString(full_url)
             ELSE UrlToString(Base) \o raw
    ELSE raw

ParseExcludes(self, u) ==
    LET entry == UrlParse[u]
    IN  IF entry.ok
        THEN self.restrict_on_domain /\ Domain(entry) # Domain(Base)
        ELSE entry.err # "RelativeUrlWithoutBase"

\* is_excluded that finds the duplicate but forgets entry.increment().
is_excluded_no_increment(self, u) ==
    [excluded |-> \/ self.limit > 0 /\ Cardinality(DOMAIN self.responses) >= self.limit
                  \/ u \in DOMAIN self.responses
                  \/ ParseExcludes(self, u),
     self |-> self]

\* is_excluded with the limit test written > instead of >=.
is_excluded_off_by_one(self, u) ==
    IF self.limit > 0 /\ Cardinality(DOMAIN self.responses) > self.limit
    THEN [excluded |-> TRUE, self |-> self]
    ELSE IF u \in DOMAIN self.responses
    THEN [excluded |-> TRUE,
          self |-> [self EXCEPT !.responses[u] = increment(@)]]
    ELSE [excluded |-> ParseExcludes(self, u), self |-> self]

\* is_excluded that never compares the domains.
is_excluded_any_domain(self, u) ==
    IF self.limit > 0 /\ Cardinality(DOMAIN self.responses) >= self.limit
    THEN [excluded |-> TRUE, self |-> self]
    ELSE IF u \in DOMAIN self.responses
    THEN [excluded |-> TRUE,
          self |-> [self EXCEPT !.responses[u] = increment(@)]]
    ELSE [excluded |-> ~UrlParse[u].ok /\ UrlParse[u].err # "RelativeUrlWithoutBase",
          self |-> self]

\* is_excluded without the lookup in `responses`.
is_excluded_no_dedup(self, u) ==
    IF self.limit > 0 /\ Cardinality(DOMAIN self.responses) >= self.limit
    THEN [excluded |-> TRUE, self |-> self]
    ELSE [excluded |-> ParseExcludes(self, u), self |-> self]

\* is_excluded that looks for the duplicate before it tests the limit.
is_excluded_dup_first(self, u) ==
    IF u \in DOMAIN self.responses
    THEN [excluded |-> TRUE,
          self |-> [self EXCEPT !.responses[u] = increment(@)]]
    ELSE IF self.limit > 0 /\ Cardinality(DOMAIN self.responses) >= self.limit
    THEN [excluded |-> TRUE, self |-> self]
    ELSE [excluded |-> ParseExcludes(self, u), self |-> self]

\* is_excluded(&mut self, url) -> bool: the result and the crawler it leaves.
is_excluded(self, u) ==
    IF self.limit > 0 /\ Cardinality(DOMAIN self.responses) >= self.limit
    THEN [excluded |-> TRUE, self |-> self]
    ELSE IF u \in DOMAIN self.responses
    THEN [excluded |-> TRUE,
          self |-> [self EXCEPT !.responses[u] = increment(@)]]
    ELSE [excluded |-> ParseExcludes(self, u), self |-> self]

\* queue that inserts the fresh record without the lookup of is_excluded.
queue_overwrite(self, raw) ==
    LET u == format_url(raw)
    IN  IF \/ self.limit > 0 /\ Cardinality(DOMAIN self.responses) >= self.limit
           \/ ParseExcludes(self, u)
        THEN self
        ELSE [self EXCEPT !.responses = Put(@, u, ResponseNew(0, 1)),
                          !.pending = Append(@, u)]

\* queue that records the url but forgets pending.push_back(url).
queue_no_push(self, raw) ==
    LET u == format_url(raw)
        x == is_excluded(self, u)
    IN  IF x.excluded THEN x.self
        ELSE [x.self EXCEPT !.responses = Put(@, u, ResponseNew(0, 1))]

queue(self, raw) ==
    LET u == format_url(raw)
        x == is_excluded(self, u)
    IN  IF x.excluded THEN x.self
        ELSE [x.self EXCEPT !.responses = Put(@, u, ResponseNew(0, 1)),
                            !.pending = Append(@, u)]

\* Crawler::new(opts)
CrawlerNew(lim, rod) ==
    queue([limit |-> lim, restrict_on_domain |-> rod,
           pending |-> <<>>, responses |-> <<>>],
          Base.path)

\* A status update that also counts the fetch as a sighting of the url.
update_status_counts(self, final, status) ==
    [self EXCEPT !.responses =
        IF final \in DOMAIN @
        THEN [@ EXCEPT ![final] = increment(set_status(@, status))]
        ELSE Put(@, final, set_status(ResponseNew(status, 1), status))]

\* A status update that sends an unknown final url through queue.
update_status_via_queue(self, final, status) ==
    IF final \in DOMAIN self.responses
    THEN [self EXCEPT !.responses[final] = set_status(@, status)]
    ELSE LET q == queue(self, final)
         IN  IF final \in DOMAIN q.responses
             THEN [q EXCEPT !.responses[final] = set_status(@, status)]
             ELSE q

\* The tail of on_response: the record of the final url gets the status.
update_status(self, final, status) ==
    [self EXCEPT !.responses =
        IF final \in DOMAIN @
        THEN [@ EXCEPT ![final] = set_status(@, status)]
        ELSE Put(@, final, set_status(ResponseNew(status, 1), status))]

-----------------------------------------------------------------------------
(* History of the calls, kept beside the program state *)

Count(b, x) == IF x \in DOMAIN b THEN b[x] ELSE 0

BagAdd(b, x) == Put(b, x, Count(b, x) + 1)

BagAddAll(b, s) ==
    [x \in DOMAIN b \cup {s[i] : i \in 1..Len(s)} |->
        Count(b, x) + Cardinality({i \in 1..Len(s) : s[i] = x})]

\* What a step appended to `pending`, given the queue before and after it.
Appended(old, new) == SubSeq(new, Len(old) + 1, Len(new))

AtCap(self) ==
    self.limit > 0 /\ Cardinality(DOMAIN self.responses) >= self.limit

-----------------------------------------------------------------------------
(* main: Crawler::new, then five tasks running the worker loop *)

Idle == [w \in Workers |-> <<>>]

NoResp == [url |-> <<>>, status |-> 0]

InitWorkers ==
    /\ lock = NoWorker
    /\ pc = [w \in Workers |-> "lock"]
    /\ url = Idle
    /\ resp = [w \in Workers |-> NoResp]
    /\ hrefs = Idle

InitCrawler(lim, rod) ==
    /\ crawler = CrawlerNew(lim, rod)
    /\ pushed = BagAddAll(<<>>, crawler.pending)
    /\ presented = BagAdd(<<>>, format_url(Base.path))
    /\ capped = <<>>
    /\ served = 0
    /\ admitted = crawler.pending
    /\ popped = <<>>

Init ==
    /\ \E lim \in 0..MaxLimit, rod \in BOOLEAN : InitCrawler(lim, rod)
    /\ InitWorkers
    /\ nu = <<>>
    /\ nr = <<>>

\* Leaving the loop body drops the guard and starts the next iteration.
Release(w) ==
    /\ lock' = NoWorker
    /\ pc' = [pc EXCEPT ![w] = "lock"]
    /\ url' = [url EXCEPT ![w] = <<>>]
    /\ resp' = [resp EXCEPT ![w] = NoResp]
    /\ hrefs' = [hrefs EXCEPT ![w] = <<>>]

\* A pop that takes the url at the back of the queue (pop_back).
LockAndPop_back(w) ==
    /\ pc[w] = "lock"
    /\ lock = NoWorker
    /\ crawler.pending # <<>>
    /\ lock' = w
    /\ url' = [url EXCEPT ![w] = crawler.pending[Len(crawler.pending)]]
    /\ crawler' = [crawler EXCEPT !.pending = SubSeq(@, 1, Len(@) - 1)]
    /\ pc' = [pc EXCEPT ![w] = "get"]
    /\ popped' = Append(popped, url'[w])
    /\ UNCHANGED <<resp, hrefs, pushed, presented, capped, served,
                   admitted, study>>

\* A pop whose guard is dropped as soon as the url is taken.
LockAndPop_unlocked(w) ==
    /\ pc[w] = "lock"
    /\ lock = NoWorker
    /\ crawler.pending # <<>>
    /\ lock' = NoWorker
    /\ url' = [url EXCEPT ![w] = Head(crawler.pending)]
    /\ crawler' = [crawler EXCEPT !.pending = Tail(@)]
    /\ pc' = [pc EXCEPT ![w] = "get"]
    /\ popped' = Append(popped, url'[w])
    /\ UNCHANGED <<resp, hrefs, pushed, presented, capped, served,
                   admitted, study>>

\* crawler.lock().await; pending.pop_front() is Some(url)
LockAndPop(w) ==
    /\ pc[w] = "lock"
    /\ lock = NoWorker
    /\ crawler.pending # <<>>
    /\ lock' = w
    /\ url' = [url EXCEPT ![w] = Head(crawler.pending)]
    /\ crawler' = [crawler EXCEPT !.pending = Tail(@)]
    /\ pc' = [pc EXCEPT ![w] = "get"]
    /\ popped' = Append(popped, url'[w])
    /\ UNCHANGED <<resp, hrefs, pushed, presented, capped, served,
                   admitted, study>>

\* A worker that leaves its loop without looking at the queue.
LockAndBreak_unseen(w) ==
    /\ pc[w] = "lock"
    /\ lock = NoWorker
    /\ pc' = [pc EXCEPT ![w] = "done"]
    /\ UNCHANGED <<crawler, lock, url, resp, hrefs, pushed, presented, capped,
                   served, admitted, popped, study>>

\* A worker that reads the queue without waiting for the lock.
LockAndBreak_no_lock(w) ==
    /\ pc[w] = "lock"
    /\ crawler.pending = <<>>
    /\ pc' = [pc EXCEPT ![w] = "done"]
    /\ UNCHANGED <<crawler, lock, url, resp, hrefs, pushed, presented, capped,
                   served, admitted, popped, study>>

\* crawler.lock().await; pending.pop_front() is None: break
LockAndBreak(w) ==
    /\ pc[w] = "lock"
    /\ lock = NoWorker
    /\ crawler.pending = <<>>
    /\ pc' = [pc EXCEPT ![w] = "done"]
    /\ UNCHANGED <<crawler, lock, url, resp, hrefs, pushed, presented,
                   capped, served, admitted, popped, study>>

\* The url reqwest::get is called with, and the urls a response can carry.
Requested(w) == format_url(url[w])

FinalUrls(req) == {UrlToString(UrlParse[req])} \cup Redirects

\* A failed fetch that ends the iteration with the guard still held.
GetErr_keeps_guard(w) ==
    /\ pc[w] = "get"
    /\ lock = w
    /\ pc' = [pc EXCEPT ![w] = "lock"]
    /\ url' = [url EXCEPT ![w] = <<>>]
    /\ UNCHANGED <<crawler, lock, resp, hrefs, pushed, presented, capped,
                   served, admitted, popped, study>>

\* reqwest::get(..).await is Err: execute returns it, the loop prints it.
GetErr(w) ==
    /\ pc[w] = "get"
    /\ lock = w
    /\ Release(w)
    /\ UNCHANGED <<crawler, pushed, presented, capped, served, admitted,
                   popped, study>>

\* reqwest::get(..).await is Ok(response)
GetOk(w, final, status) ==
    /\ pc[w] = "get"
    /\ lock = w
    /\ UrlParse[Requested(w)].ok
    /\ resp' = [resp EXCEPT ![w] = [url |-> final, status |-> status]]
    /\ pc' = [pc EXCEPT ![w] = "text"]
    /\ UNCHANGED <<crawler, lock, url, hrefs, pushed, presented, capped,
                   served, admitted, popped, study>>

\* An unreadable body that still records the status of the response.
TextErr_records_status(w) ==
    /\ pc[w] = "text"
    /\ lock = w
    /\ crawler' = update_status(crawler, resp[w].url, resp[w].status)
    /\ Release(w)
    /\ UNCHANGED <<pushed, presented, capped, served, admitted, popped,
                   study>>

\* response.text().await? is Err
TextErr(w) ==
    /\ pc[w] = "text"
    /\ lock = w
    /\ Release(w)
    /\ UNCHANGED <<crawler, pushed, presented, capped, served, admitted,
                   popped, study>>

\* response.text().await? is Ok(body); the document holds the hrefs `links`
TextOk(w, links) ==
    /\ pc[w] = "text"
    /\ lock = w
    /\ hrefs' = [hrefs EXCEPT ![w] = links]
    /\ pc' = [pc EXCEPT ![w] = "links"]
    /\ served' = served + Len(links)
    /\ UNCHANGED <<crawler, lock, url, resp, pushed, presented, capped,
                   admitted, popped, study>>

\* One turn of .for_each(|x| self.queue(x))
QueueHref(w) ==
    /\ pc[w] = "links"
    /\ lock = w
    /\ hrefs[w] # <<>>
    /\ crawler' = queue(crawler, Head(hrefs[w]))
    /\ hrefs' = [hrefs EXCEPT ![w] = Tail(@)]
    /\ pushed' = BagAddAll(pushed, Appended(crawler.pending, crawler'.pending))
    /\ presented' = BagAdd(presented, format_url(Head(hrefs[w])))
    /\ capped' = IF AtCap(crawler)
                 THEN BagAdd(capped, format_url(Head(hrefs[w])))
                 ELSE capped
    /\ admitted' = admitted \o Appended(crawler.pending, crawler'.pending)
    /\ UNCHANGED <<lock, pc, url, resp, served, popped, study>>

\* The rest of on_response, Ok(()) and the end of the loop body
SetStatus(w) ==
    /\ pc[w] = "links"
    /\ lock = w
    /\ hrefs[w] = <<>>
    /\ crawler' = update_status(crawler, resp[w].url, resp[w].status)
    /\ Release(w)
    /\ pushed' = BagAddAll(pushed, Appended(crawler.pending, crawler'.pending))
    /\ admitted' = admitted \o Appended(crawler.pending, crawler'.pending)
    /\ UNCHANGED <<presented, capped, served, popped, study>>

Next ==
    \E w \in Workers :
        \/ LockAndPop(w)
        \/ LockAndBreak(w)
        \/ GetErr(w)
        \/ \E final \in FinalUrls(Requested(w)), status \in Statuses :
               GetOk(w, final, status)
        \/ TextErr(w)
        \/ \E links \in LinkLists(MaxHrefs - served) : TextOk(w, links)
        \/ QueueHref(w)
        \/ SetStatus(w)

Spec == Init /\ [][Next]_vars

\* The runtime keeps polling the tasks and every fetch returns: as long as
\* some worker can take a step, a step is taken.
FairSpec == Spec /\ WF_vars(Next)

-----------------------------------------------------------------------------
(* The scenario crawl: one page with four links, no redirects *)

ScenarioLinks == <<LinkRelA, LinkAbsB, LinkOtherC, LinkRelA>>

ScenarioPage(u) == IF u = Entrypoint THEN ScenarioLinks ELSE <<>>

ScenarioInit ==
    /\ InitCrawler(0, TRUE)
    /\ InitWorkers
    /\ nu = <<>>
    /\ nr = <<>>

ScenarioNext ==
    \E w \in Workers :
        \/ LockAndPop(w)
        \/ LockAndBreak(w)
        \/ Requested(w) # Entrypoint /\ GetErr(w)
        \/ \E status \in Statuses :
               GetOk(w, UrlToString(UrlParse[Requested(w)]), status)
        \/ resp[w].url # Entrypoint /\ TextErr(w)
        \/ TextOk(w, ScenarioPage(resp[w].url))
        \/ QueueHref(w)
        \/ SetStatus(w)

SpecScenario == ScenarioInit /\ [][ScenarioNext]_vars

-----------------------------------------------------------------------------
(* format_url on its own: every short string, formatted twice *)

NormalizeInit ==
    /\ nu \in StringsUpTo(MaxStrLen)
    /\ nr = <<>>
    /\ InitCrawler(0, FALSE)
    /\ InitWorkers

Normalize ==
    /\ Len(nr) < 2
    /\ nr' = Append(nr, format_url(IF nr = <<>> THEN nu ELSE nr[Len(nr)]))
    /\ UNCHANGED <<crawl, nu>>

SpecNormalize == NormalizeInit /\ [][Normalize]_vars

-----------------------------------------------------------------------------
(* Properties *)

Ledger == crawler.responses

Frontier == crawler.pending

AllDone == \A w \in Workers : pc[w] = "done"

\* The step of worker w is one call of queue.
QueueStep(w) ==
    pc[w] = "links" /\ hrefs[w] # <<>> /\ hrefs'[w] = Tail(hrefs[w])

\* The step of worker w ends its iteration on a failed fetch or body read.
FailureStep(w) ==
    \/ pc[w] = "get" /\ pc'[w] \notin {"get", "text"}
    \/ pc[w] = "text" /\ pc'[w] \notin {"text", "links"}

\* queue would admit `raw` now if the domain restriction flag were `rod`.
Admits(rod, raw) ==
    ~is_excluded([crawler EXCEPT !.restrict_on_domain = rod],
                 format_url(raw)).excluded

\* `raw` is a scheme-relative reference ("//host/..") to another host.
ResolvesOffBase(raw) ==
    LET j == UrlJoin(Base, raw) IN j.ok /\ Domain(j) # Domain(Base)

\* C1 as stated: every url that queue was called with has a Ledger record
\* whose count is the number of those calls.
C1_Original ==
    \A u \in DOMAIN presented :
        u \in DOMAIN Ledger /\ Ledger[u].count = presented[u]

\* C1, amended: a url that queue admitted has a Ledger record, and its count
\* is the number of queue calls that presented it, less the calls that met
\* the limit check (those return before the duplicate is counted).
C1_Dedup ==
    \A u \in DOMAIN pushed :
        /\ u \in DOMAIN Ledger
        /\ Ledger[u].count = Count(presented, u) - Count(capped, u)

C1_Witness ==
    \E u \in DOMAIN pushed :
        presented[u] = 2 /\ Count(capped, u) = 0 /\ Ledger[u].count = 2

\* C2 as stated: with a limit K > 0 the Ledger never has more than K entries.
C2_Original ==
    crawler.limit > 0 => Cardinality(DOMAIN Ledger) <= crawler.limit

C2_Admitted ==
    crawler.limit > 0 =>
        /\ Cardinality(DOMAIN pushed) <= crawler.limit
        /\ Cardinality(DOMAIN Ledger) <= 2 * crawler.limit

C2_QueueAtCap ==
    \A w \in Workers :
        QueueStep(w) /\ AtCap(crawler) => crawler' = crawler

\* C2, amended: with a limit K > 0 queue admits at most K urls (the Ledger
\* holds at most K further records, made by the status update for final urls
\* that were no key), and a queue call made when the Ledger has K entries or
\* more changes nothing.
C2_Limit == []C2_Admitted /\ [][C2_QueueAtCap]_vars

C2_Witness ==
    /\ crawler.limit = 2
    /\ Cardinality(DOMAIN pushed) = 2
    /\ \E u \in DOMAIN capped : TRUE

C3_OffDomainNeverQueued ==
    crawler.restrict_on_domain =>
        \A u \in DOMAIN pushed :
            UrlParse[u].ok => Domain(UrlParse[u]) = Domain(Base)

\* C3 as stated: under the restriction no absolute url of another domain is
\* pushed, and whether queue admits a link that starts with '/' is the same
\* with the flag on and off.
C3_Original ==
    /\ C3_OffDomainNeverQueued
    /\ \A w \in Workers :
           pc[w] = "links" /\ hrefs[w] # <<>> /\ StartsWithSlash(Head(hrefs[w]))
               => (Admits(TRUE, Head(hrefs[w])) <=> Admits(FALSE, Head(hrefs[w])))

\* C3, amended: under the restriction no absolute url of another domain is
\* pushed, and whether queue admits a link that starts with '/' is the same
\* with the flag on and off unless the link resolves to another host (a
\* scheme-relative reference, "//host/..").
C3_DomainRestriction ==
    /\ C3_OffDomainNeverQueued
    /\ \A w \in Workers :
           /\ pc[w] = "links" /\ hrefs[w] # <<>>
           /\ StartsWithSlash(Head(hrefs[w]))
           /\ ~ResolvesOffBase(Head(hrefs[w]))
           => (Admits(TRUE, Head(hrefs[w])) <=> Admits(FALSE, Head(hrefs[w])))

C3_Witness ==
    /\ crawler.restrict_on_domain
    /\ Count(presented, LinkOtherC) > Count(capped, LinkOtherC)
    /\ Count(pushed, UrlA) = 1

C4_PushedOnce == \A u \in DOMAIN pushed : pushed[u] <= 1

C4_PushedWithRecord ==
    \A u \in DOMAIN pushed' :
        Count(pushed', u) > Count(pushed, u) =>
            u \notin DOMAIN Ledger /\ u \in DOMAIN Ledger'

\* C4: no string is pushed to the Frontier twice, and a push happens only in
\* the step that creates the Ledger record of the string.
C4_NoDoubleEnqueue == []C4_PushedOnce /\ [][C4_PushedWithRecord]_vars

C4_Witness ==
    \E u \in DOMAIN pushed :
        pushed[u] = 1 /\ presented[u] >= 2 /\ Ledger[u].count >= 2

\* C5 as stated: every Ledger key was pushed to the Frontier exactly once and
\* every Frontier entry is a Ledger key.
C5_Original ==
    /\ \A u \in DOMAIN Ledger : Count(pushed, u) = 1
    /\ \A i \in 1..Len(Frontier) : Frontier[i] \in DOMAIN Ledger

C5_PushedAreKeys ==
    /\ \A u \in DOMAIN pushed : pushed[u] = 1 /\ u \in DOMAIN Ledger
    /\ \A i \in 1..Len(Frontier) : Frontier[i] \in DOMAIN Ledger
    /\ \A u \in DOMAIN Ledger : Count(pushed, u) = 0 => Ledger[u].status # 0

C5_KeyEntersWithPush ==
    \A u \in DOMAIN Ledger' \ DOMAIN Ledger :
        \/ Count(pushed', u) = Count(pushed, u) + 1
        \/ \E w \in Workers :
               pc[w] = "links" /\ hrefs[w] = <<>> /\ resp[w].url = u

\* C5, amended: every string pushed to the Frontier was pushed exactly once,
\* in the step that made it a Ledger key, and every Frontier entry is a
\* Ledger key; the only Ledger keys that were never pushed are final urls
\* recorded, with their status, by the status update.
C5_AtomicAdmission == []C5_PushedAreKeys /\ [][C5_KeyEntersWithPush]_vars

C5_Witness ==
    /\ Cardinality(DOMAIN pushed) >= 2
    /\ \E u \in DOMAIN Ledger : Count(pushed, u) = 0

\* C6 as stated: a worker that is fetching (waiting for the response or for
\* its body) does not hold the lock.
C6_Original == \A w \in Workers : pc[w] \in {"get", "text"} => lock # w

\* C7: with every worker polled fairly and every fetch returning, the crawl
\* reaches a state where the Frontier is empty for good and all workers
\* have left their loop.
C7_Termination == <>[](Frontier = <<>> /\ AllDone)

C7_Witness ==
    AllDone /\ Frontier = <<>> /\ Cardinality(DOMAIN Ledger) >= 2

C8_FailureKeepsState ==
    \A w \in Workers :
        FailureStep(w) =>
            /\ crawler' = crawler
            /\ pc'[w] = "lock"
            /\ lock' = NoWorker
            /\ \A v \in Workers \ {w} :
                   pc'[v] = pc[v] /\ url'[v] = url[v] /\ hrefs'[v] = hrefs[v]

\* C8: a failed fetch (transport error or unreadable body) leaves the Ledger
\* and the Frontier as they were, sends the worker to its next iteration and
\* changes no other worker.
C8_FetchFailure == [][C8_FailureKeepsState]_vars

C8_Witness ==
    /\ DOMAIN Ledger = DOMAIN pushed
    /\ lock = NoWorker
    /\ \E u \in DOMAIN Ledger :
           /\ UrlParse[u].ok
           /\ Ledger[u].status = 0
           /\ \A i \in 1..Len(Frontier) : Frontier[i] # u
    /\ \E w \in Workers : pc[w] = "lock"

\* C9: when the scenario crawl is over the Ledger holds exactly the seed,
\* /a and /b, not the url of the other domain, and /a was counted twice.
C9_Scenario ==
    AllDone =>
        /\ DOMAIN Ledger = {Entrypoint, UrlA, LinkAbsB}
        /\ LinkOtherC \notin DOMAIN Ledger
        /\ Ledger[UrlA].count = 2

C9_Witness ==
    AllDone /\ Cardinality(DOMAIN Ledger) = 3 /\ Ledger[Entrypoint].status # 0

\* C10: format_url returns an absolute url unchanged, so formatting it twice
\* gives what formatting it once gives.
C10_Idempotent ==
    Len(nr) = 2 /\ UrlParse[nu].ok => nr[1] = nu /\ nr[2] = nr[1]

C10_Witness ==
    Len(nr) = 2 /\ UrlParse[nu].ok /\ UrlParse[nu].path # <<"/">>

\* The step of worker w is the status update that ends on_response.
StatusStep(w) ==
    pc[w] = "links" /\ hrefs[w] = <<>> /\ pc'[w] = "lock"

\* C11 as stated: when a worker has fetched the url it popped and got a
\* response, the record of that popped url has a non-zero status.
C11_Original ==
    [][\A w \in Workers :
          StatusStep(w) => Ledger'[url[w]].status # 0]_vars

C11_ZeroIsQueued ==
    \A u \in DOMAIN Ledger :
        /\ Ledger[u].status \in Statuses \cup {0}
        /\ Ledger[u].status = 0 => Count(pushed, u) = 1

C11_StatusChange ==
    /\ \A w \in Workers :
           StatusStep(w) => Ledger'[resp[w].url].status = resp[w].status
    /\ \A u \in DOMAIN Ledger' :
           Ledger'[u].status # 0 <=>
               \/ u \in DOMAIN Ledger /\ Ledger[u].status # 0
               \/ \E w \in Workers : StatusStep(w) /\ resp[w].url = u

\* C11: a record has status 0 only if queue made it, and it has a non-zero
\* status exactly when some fetch whose response's final url is its key
\* has completed; that status update writes the observed code.
C11_StatusOfFinalUrl == []C11_ZeroIsQueued /\ [][C11_StatusChange]_vars

C11_Witness ==
    /\ DOMAIN pushed = {Entrypoint}
    /\ Frontier = <<>>
    /\ lock = NoWorker
    /\ Ledger[Entrypoint].status = 0
    /\ UrlA \in DOMAIN Ledger
    /\ Ledger[UrlA].status # 0

\* `u` is an absolute url string.
Absolute(u) == UrlParse[u].ok

\* C12 as stated: every Frontier entry, every url ever pushed and every url
\* popped for a fetch is an absolute url; no relative link string is queued.
C12_Original ==
    /\ \A i \in 1..Len(Frontier) : Absolute(Frontier[i])
    /\ \A u \in DOMAIN pushed : Absolute(u)
    /\ \A w \in Workers : url[w] # <<>> => Absolute(url[w])

C13_QueueDecision ==
    \A w \in Workers :
        QueueStep(w) =>
            LET u == format_url(Head(hrefs[w]))
            IN  IF AtCap(crawler)
                THEN crawler' = crawler
                ELSE IF u \in DOMAIN Ledger
                THEN crawler' = [crawler EXCEPT !.responses[u].count = @ + 1]
                ELSE IF ParseExcludes(crawler, u)
                THEN crawler' = crawler
                ELSE /\ Ledger' = Put(Ledger, u, ResponseNew(0, 1))
                     /\ Frontier' = Append(Frontier, u)

\* C13: a queue call decides in the order cap, duplicate, parse: at the cap
\* it changes nothing, not even the count of a url the Ledger already has;
\* below the cap a known url is counted once more and nothing else changes;
\* only a new url reaches the parse test, which admits or drops it.
C13_ExclusionOrder == [][C13_QueueDecision]_vars

C13_Witness ==
    \E u \in DOMAIN pushed :
        /\ Count(capped, u) >= 1
        /\ Ledger[u].count = Count(presented, u) - Count(capped, u)

C14_StatusFrame ==
    \A w \in Workers :
        StatusStep(w) =>
            LET final == resp[w].url
            IN  /\ DOMAIN Ledger' = DOMAIN Ledger \cup {final}
                /\ Ledger'[final].status = resp[w].status
                /\ final \in DOMAIN Ledger =>
                       Ledger'[final].count = Ledger[final].count
                /\ \A u \in DOMAIN Ledger \ {final} : Ledger'[u] = Ledger[u]

C14_CountChange ==
    \A u \in DOMAIN Ledger \cap DOMAIN Ledger' :
        Ledger'[u].count # Ledger[u].count =>
            /\ Ledger'[u].count = Ledger[u].count + 1
            /\ ~AtCap(crawler)
            /\ \E w \in Workers :
                   QueueStep(w) /\ format_url(Head(hrefs[w])) = u

\* C14: the status update writes the observed code to the record of the
\* final url and changes neither that record's count nor any other record;
\* the count of an existing record changes only in a queue call that
\* presents its url below the cap, and then by exactly one.
C14_StatusUpdateFrame ==
    [][C14_StatusFrame /\ C14_CountChange]_vars

C14_Witness ==
    /\ lock = NoWorker
    /\ \E u \in DOMAIN Ledger :
           Ledger[u].count >= 2 /\ Ledger[u].status # 0

C15_FreshRecord ==
    \A w \in Workers :
        StatusStep(w) /\ resp[w].url \notin DOMAIN Ledger =>
            /\ Ledger' = Put(Ledger, resp[w].url,
                             ResponseNew(resp[w].status, 1))
            /\ Frontier' = Frontier
            /\ pushed' = pushed

\* C15: when the final url of a response has no record once the links of the
\* page are queued, the status update gives it a record with count 1 and
\* the observed status, whatever the limit and the domain restriction say,
\* and the url is not appended to the Frontier.
C15_RedirectRecord == [][C15_FreshRecord]_vars

C15_Witness ==
    /\ crawler.limit > 0
    /\ Cardinality(DOMAIN Ledger) > crawler.limit
    /\ \E u \in DOMAIN Ledger \ DOMAIN pushed :
           /\ Ledger[u].count = 1
           /\ Ledger[u].status # 0
           /\ \A i \in 1..Len(Frontier) : Frontier[i] # u

\* C16: the urls popped so far, followed by the urls still in the Frontier,
\* are the urls admitted so far in the order of their admission: pushes go
\* to the back, pops take the front, and the pop order is the push order.
C16_Fifo == admitted = popped \o Frontier

C16_Witness ==
    /\ Len(popped) >= 2
    /\ Frontier # <<>>
    /\ \E w \in Workers : pc[w] = "get" /\ url[w] = popped[Len(popped)]

\* How often the string u occurs in the sequence s.
Occurrences(s, u) == Cardinality({i \in 1..Len(s) : s[i] = u})

C17_ExitOnEmpty ==
    \A w \in Workers :
        pc[w] # "done" /\ pc'[w] = "done" =>
            /\ pc[w] = "lock"
            /\ lock = NoWorker
            /\ Frontier = <<>>
            /\ Frontier' = <<>>

C17_Drained ==
    AllDone =>
        /\ Frontier = <<>>
        /\ \A u \in DOMAIN pushed :
               Occurrences(admitted, u) = pushed[u] /\ Occurrences(popped, u) = 1

\* C17: a worker leaves its loop only in a step where it can take the lock
\* and finds the Frontier empty; once all workers have left, the Frontier
\* is empty and every url that was pushed has been popped exactly once.
C17_Completion == []C17_Drained /\ [][C17_ExitOnEmpty]_vars

C17_Witness ==
    AllDone /\ Len(popped) >= 3 /\ \E u \in DOMAIN pushed : ~Absolute(u)

SomeExited == \E w \in Workers : pc[w] = "done"

C18_AfterExit ==
    SomeExited =>
        /\ Frontier = <<>>
        /\ lock = NoWorker
        /\ \A v \in Workers : pc[v] \in {"lock", "done"} /\ url[v] = <<>>

C18_NothingAdmitted ==
    SomeExited => Ledger' = Ledger /\ Frontier' = Frontier

\* C18: once a worker has left its loop the Frontier is empty, no worker has
\* a popped url in progress, and no later step changes the Ledger or the
\* Frontier: a worker never leaves while another is between pop and the
\* end of its cycle.
C18_ExitIsFinal == []C18_AfterExit /\ [][C18_NothingAdmitted]_vars

C18_Witness ==
    /\ SomeExited
    /\ \E v \in Workers : pc[v] = "lock"
    /\ Len(popped) >= 2

\* Worker w has popped a url and not yet ended the iteration.
InCycle(w) == pc[w] \in {"get", "text", "links"}

C19_OneCycle ==
    /\ Cardinality({w \in Workers : InCycle(w)}) <= 1
    /\ \A w \in Workers :
           IF InCycle(w) THEN lock = w /\ url[w] # <<>>
                         ELSE lock # w /\ url[w] = <<>>

C19_CycleSteps ==
    \A w \in Workers :
        InCycle(w) =>
            /\ \A v \in Workers \ {w} :
                   /\ pc'[v] = pc[v]
                   /\ url'[v] = url[v]
                   /\ resp'[v] = resp[v]
                   /\ hrefs'[v] = hrefs[v]
            /\ pc[w] = "get" => pc'[w] \in {"text", "lock"}
            /\ pc[w] = "text" => pc'[w] \in {"links", "lock"}
            /\ pc[w] = "links" =>
                   IF hrefs[w] = <<>>
                   THEN pc'[w] = "lock"
                   ELSE /\ pc'[w] = "links"
                        /\ hrefs'[w] = Tail(hrefs[w])
                        /\ crawler' = queue(crawler, Head(hrefs[w]))
            /\ pc'[w] # "lock" => url'[w] = url[w] /\ lock' = w

\* C19: at most one worker is between its pop and the end of its cycle, and
\* it holds the lock; while it is there every step is its own and the
\* steps come in the order fetch, body, one queue call per link in
\* document order, status update.
C19_SerialCycles == []C19_OneCycle /\ [][C19_CycleSteps]_vars

C19_Witness ==
    /\ Frontier # <<>>
    /\ \E w \in Workers :
           /\ pc[w] = "links"
           /\ Len(hrefs[w]) = 1
           /\ served >= 2
           /\ \E v \in Workers \ {w} : pc[v] = "lock"

C20_CountPositive == \A u \in DOMAIN Ledger : Ledger[u].count >= 1

C20_RecordsGrow ==
    /\ DOMAIN Ledger \subseteq DOMAIN Ledger'
    /\ \A u \in DOMAIN Ledger \cap DOMAIN Ledger' :
           /\ Ledger'[u].count >= Ledger[u].count
           /\ Ledger[u].status # 0 => Ledger'[u].status # 0
           /\ (\E w \in Workers : QueueStep(w)) =>
                  Ledger'[u].status = Ledger[u].status
    /\ \A u \in DOMAIN Ledger' \ DOMAIN Ledger :
           (\E w \in Workers : QueueStep(w)) => Ledger'[u] = ResponseNew(0, 1)

\* C20: no step removes a Ledger key, lowers a count or turns a non-zero
\* status back to 0; a queue call leaves the status of every record it
\* finds as it is and writes {status 0, count 1} only under a new key; and
\* every count is at least 1.
C20_LedgerGrows == []C20_CountPositive /\ [][C20_RecordsGrow]_vars

C20_Witness ==
    \E u \in DOMAIN Ledger \ DOMAIN pushed :
        Ledger[u].count >= 2 /\ Ledger[u].status # 0

=============================================================================
